---- MODULE Spec2Model ----
(***************************************************************************)
(* A model of the graph_analyses crate.                                    *)
(*                                                                         *)
(*   GraphCore   (src/src/graph/core.rs): nodes keyed by NodeID, children  *)
(*               held in a HashSet, no key translation.                    *)
(*   Graph       (src/src/graph/graph.rs, src/src/usize_graph/graph.rs):   *)
(*               caller keys translated to NodeIDs through id_dict,        *)
(*               children held in a Vec.                                   *)
(*                                                                         *)
(* Every public method is one action, except detect_cycle and traverse,    *)
(* whose loops are unrolled one iteration per step so that the locals of   *)
(* the search (visited, rec_stack, stack) are visible between iterations.  *)
(* The iteration order of a HashMap / HashSet is unspecified, so every     *)
(* order is allowed.  A call leaves its value in `ret`; the caller drops   *)
(* it (drop_result) before the next call, as main.rs does.                 *)
(***************************************************************************)
EXTENDS Integers, Sequences, FiniteSets, TLC

\* ---------------------------------------------------------------- bounds
\* NodeIDs handed to GraphCore are 0 .. MaxNodeID.
MaxNodeID == 2
\* Caller keys handed to Graph are 0 .. MaxKey.
MaxKey == 2
\* GraphCore::add_edge adds a new edge only while fewer than MaxEdges are stored.
MaxEdges == 3
\* Graph (keyed) grows only while it holds fewer than MaxSize nodes and edges.
MaxSize == 6

NodeIDs == 0 .. MaxNodeID
Keys == 0 .. MaxKey

VARIABLES
    core_nodes,   \* GraphCore.nodes_dict : NodeID -> children (a set)
    id_counter,   \* Graph.id_counter
    id_dict,      \* Graph.id_dict / usize_id_dict : key -> NodeID
    nodes_dict,   \* Graph.nodes_dict : NodeID -> children (a Vec)
    pc,           \* the caller: "idle", in a method's loop, or "returned"
    visited,      \* local of detect_cycle and of traverse
    rec_stack,    \* local of detect_cycle
    cycle,        \* local of detect_cycle
    keys_left,    \* nodes_dict.keys() not yet yielded to detect_cycle's loop
    frames,       \* activations of has_cycle_dfs: node and the children left
    stack,        \* local of traverse
    visit_log,    \* the calls of traverse's visit closure, in order
    ret,          \* the call in hand: method, arguments, returned value
    added         \* history: the (from, to) of every add_edge that returned Ok

graph_vars == <<core_nodes, id_counter, id_dict, nodes_dict>>
search_vars == <<visited, rec_stack, cycle, keys_left, frames, stack, visit_log>>
vars == <<core_nodes, id_counter, id_dict, nodes_dict, pc, visited, rec_stack,
          cycle, keys_left, frames, stack, visit_log, ret, added>>

\* ------------------------------------------------------------ data helpers
Ok(v) == [kind |-> "Ok", val |-> v]
\* An Err(String): the format template and the value formatted into it.
Err(template, v) == [kind |-> "Err", msg |-> <<template, v>>]
SomeOf(v) == [kind |-> "Some", val |-> v]
None == [kind |-> "None"]
Call(op, args, res) == [op |-> op, args |-> args, res |-> res]
\* No call in hand: the caller dropped the last result (`let _ = ..`).
NoCall == Call("none", << >>, None)

\* Every order in which a HashSet / the keys of a HashMap can be iterated.
Orders(S) ==
    {f \in [1 .. Cardinality(S) -> S] :
        \A i, j \in 1 .. Cardinality(S) : i # j => f[i] # f[j]}

\* A search that compares only rec_stack.last() with node.
PositionLastOnly(s, node) ==
    IF Len(s) > 0 /\ s[Len(s)] = node THEN Len(s) ELSE 0

\* slice.iter().position(|&x| x == node): the first index, 0 for None.
Position(s, node) ==
    IF \E i \in 1 .. Len(s) : s[i] = node
    THEN CHOOSE i \in 1 .. Len(s) :
            s[i] = node /\ \A j \in 1 .. (i - 1) : s[j] # node
    ELSE 0

Init ==
    /\ core_nodes = << >>
    /\ id_counter = 0
    /\ id_dict = << >>
    /\ nodes_dict = << >>
    /\ pc = "idle"
    /\ visited = {}
    /\ rec_stack = << >>
    /\ cycle = << >>
    /\ keys_left = {}
    /\ frames = << >>
    /\ stack = << >>
    /\ visit_log = << >>
    /\ ret = NoCall
    /\ added = {}

\* ------------------------------------------------------------- GraphCore
CoreEdgeCount ==
    Cardinality({e \in NodeIDs \X NodeIDs :
                    e[1] \in DOMAIN core_nodes /\ e[2] \in core_nodes[e[1]]})

\* Node::add_edge (HashSet children): <<returned bool, children after>>.
CoreNode_add_edge(children, id) ==
    <<id \in children, children \cup {id}>>

\* HashMap::insert(k, v): <<old value or None, map after>>.
HashMapInsert(m, k, v) ==
    << IF k \in DOMAIN m THEN SomeOf(m[k]) ELSE None,
       [x \in DOMAIN m \cup {k} |-> IF x = k THEN v ELSE m[x]] >>

\* GraphCore::add_node
Core_add_node(new_id) ==
    /\ pc = "idle"
    /\ LET ins == HashMapInsert(core_nodes, new_id, {})
       IN /\ core_nodes' = ins[2]
          /\ ret' = Call("add_node", <<new_id>>,
                         IF ins[1].kind = "Some"
                         THEN Err("duplication: node {} is already added", new_id)
                         ELSE Ok("unit"))
    /\ pc' = "returned"
    /\ UNCHANGED <<id_counter, id_dict, nodes_dict>>
    /\ UNCHANGED search_vars

\* GraphCore::add_edge on a registered from_id
Core_add_edge(from_id, to_id) ==
    /\ pc = "idle"
    /\ from_id \in DOMAIN core_nodes
    /\ (to_id \in core_nodes[from_id] \/ CoreEdgeCount < MaxEdges)
    /\ LET r == CoreNode_add_edge(core_nodes[from_id], to_id)
       IN /\ core_nodes' = [core_nodes EXCEPT ![from_id] = r[2]]
          /\ ret' = Call("add_edge", <<from_id, to_id>>, Ok(r[1]))
    /\ pc' = "returned"
    /\ UNCHANGED <<id_counter, id_dict, nodes_dict>>
    /\ UNCHANGED search_vars

\* GraphCore::add_edge on an unregistered from_id: get_mut(..).unwrap() panics.
Core_add_edge_panic(from_id, to_id) ==
    /\ pc = "idle"
    /\ from_id \notin DOMAIN core_nodes
    /\ pc' = "panicked"
    /\ ret' = Call("add_edge", <<from_id, to_id>>, [kind |-> "Panic"])
    /\ UNCHANGED graph_vars
    /\ UNCHANGED search_vars

\* --------------------------------------------------------- detect_cycle
\* The witness cut at the wrong end: rec_stack[..pos], then push(node).
CycleOfPrefix(s, pos, node) ==
    Append(SubSeq(s, 1, pos), node)

\* The witness has_cycle_dfs builds: rec_stack[pos..].to_vec(), then push(node).
CycleOf(s, pos, node) ==
    Append(SubSeq(s, pos, Len(s)), node)

\* detect_cycle returns `res`; its locals are dropped.  What `visited` and
\* `rec_stack` held is kept in the record of the call for the properties.
DetectReturn(res) ==
    /\ pc' = "returned"
    /\ ret' = [op |-> "detect_cycle", args |-> << >>, res |-> res,
               visited |-> visited, rec_stack |-> rec_stack]
    /\ visited' = {}
    /\ rec_stack' = << >>
    /\ cycle' = << >>
    /\ keys_left' = {}
    /\ frames' = << >>

\* has_cycle_dfs(node, visited, rec_stack, cycle), called with `callers` the
\* activations below it and `keys` the keys detect_cycle's loop has left.
\* iters[n] holds the orders in which n's children can be iterated.  A
\* `true` is handed down through every caller to detect_cycle, which
\* returns Some(cycle) (one step).
HasCycleDfs(node, iters, callers, keys) ==
    LET pos == Position(rec_stack, node)
    IN  IF pos # 0
        THEN DetectReturn(SomeOf(CycleOf(rec_stack, pos, node)))
        ELSE IF node \in visited
        THEN /\ frames' = callers
             /\ keys_left' = keys
             /\ UNCHANGED <<visited, rec_stack, cycle, pc, ret>>
        ELSE \E it \in iters[node] :
             /\ visited' = visited \cup {node}
             /\ rec_stack' = Append(rec_stack, node)
             /\ frames' = Append(callers, [node |-> node, iter |-> it])
             /\ keys_left' = keys
             /\ UNCHANGED <<cycle, pc, ret>>

\* detect_cycle up to its loop: the three locals, and the keys to scan.
DetectBegin(keys) ==
    /\ pc = "idle"
    /\ pc' = "detect_cycle"
    /\ visited' = {}
    /\ rec_stack' = << >>
    /\ cycle' = << >>
    /\ frames' = << >>
    /\ keys_left' = keys
    /\ ret' = Call("detect_cycle", << >>, [kind |-> "Running"])
    /\ UNCHANGED <<stack, visit_log>>
    /\ UNCHANGED graph_vars

\* One iteration of `for &node in self.nodes_dict.keys()`, or its end.
DetectScan(iters) ==
    /\ pc = "detect_cycle"
    /\ frames = << >>
    /\ IF keys_left = {}
       THEN DetectReturn(None)
       ELSE \E node \in keys_left :
            IF node \in visited
            THEN /\ keys_left' = keys_left \ {node}
                 /\ UNCHANGED <<visited, rec_stack, cycle, frames, pc, ret>>
            ELSE HasCycleDfs(node, iters, << >>, keys_left \ {node})
    /\ UNCHANGED <<stack, visit_log>>
    /\ UNCHANGED graph_vars

\* The loop over the children whose end returns false without
\* rec_stack.pop().
DfsLoopNoPop(iters) ==
    /\ pc = "detect_cycle"
    /\ frames # << >>
    /\ LET top == frames[Len(frames)]
           below == SubSeq(frames, 1, Len(frames) - 1)
       IN  IF top.iter = << >>
           THEN /\ frames' = below
                /\ UNCHANGED <<visited, rec_stack, cycle, keys_left, pc, ret>>
           ELSE HasCycleDfs(Head(top.iter), iters,
                            Append(below, [top EXCEPT !.iter = Tail(top.iter)]),
                            keys_left)
    /\ UNCHANGED <<stack, visit_log>>
    /\ UNCHANGED graph_vars

\* One iteration of `for &neighbor in &n.children` in the innermost
\* activation, or its end: rec_stack.pop() and return false.
DfsLoop(iters) ==
    /\ pc = "detect_cycle"
    /\ frames # << >>
    /\ LET top == frames[Len(frames)]
           below == SubSeq(frames, 1, Len(frames) - 1)
       IN  IF top.iter = << >>
           THEN /\ rec_stack' = SubSeq(rec_stack, 1, Len(rec_stack) - 1)
                /\ frames' = below
                /\ UNCHANGED <<visited, cycle, keys_left, pc, ret>>
           ELSE HasCycleDfs(Head(top.iter), iters,
                            Append(below, [top EXCEPT !.iter = Tail(top.iter)]),
                            keys_left)
    /\ UNCHANGED <<stack, visit_log>>
    /\ UNCHANGED graph_vars

\* `self.nodes_dict.get(&node)` then `&n.children`, for a HashSet.
CoreIters ==
    [n \in NodeIDs |->
        IF n \in DOMAIN core_nodes THEN Orders(core_nodes[n]) ELSE {<< >>}]

Core_detect_cycle == DetectBegin(DOMAIN core_nodes)
Core_detect_scan == DetectScan(CoreIters)
Core_has_cycle_dfs == DfsLoop(CoreIters)

\* ------------------------------------------------------------- traverse
\* GraphCore::traverse up to its loop.
Core_traverse(start) ==
    /\ pc = "idle"
    /\ pc' = "traverse"
    /\ visited' = {}
    /\ stack' = <<start>>
    /\ visit_log' = << >>
    /\ ret' = Call("traverse", <<start>>, [kind |-> "Running"])
    /\ UNCHANGED <<rec_stack, cycle, keys_left, frames>>
    /\ UNCHANGED graph_vars

\* The loop of traverse with `visited.insert(node)` left out.
Core_traverse_loop_NoInsert ==
    /\ pc = "traverse"
    /\ IF stack = << >>
       THEN /\ pc' = "returned"
            /\ ret' = [op |-> "traverse", args |-> ret.args,
                       res |-> Ok("unit"), visits |-> visit_log]
            /\ visited' = {}
            /\ visit_log' = << >>
            /\ UNCHANGED stack
       ELSE LET node == stack[Len(stack)]
                rest == SubSeq(stack, 1, Len(stack) - 1)
            IN  IF node \in visited
                THEN /\ stack' = rest
                     /\ UNCHANGED <<visited, visit_log, pc, ret>>
                ELSE /\ visit_log' = Append(visit_log, node)
                     /\ \E order \in CoreIters[node] : stack' = rest \o order
                     /\ UNCHANGED <<visited, pc, ret>>
    /\ UNCHANGED <<rec_stack, cycle, keys_left, frames>>
    /\ UNCHANGED graph_vars

\* One iteration of `while let Some(node) = stack.pop()`, or its end.
\* The calls of `visit` are kept in the record of the call.
Core_traverse_loop ==
    /\ pc = "traverse"
    /\ IF stack = << >>
       THEN /\ pc' = "returned"
            /\ ret' = [op |-> "traverse", args |-> ret.args,
                       res |-> Ok("unit"), visits |-> visit_log]
            /\ visited' = {}
            /\ visit_log' = << >>
            /\ UNCHANGED stack
       ELSE LET node == stack[Len(stack)]
                rest == SubSeq(stack, 1, Len(stack) - 1)
            IN  IF node \in visited
                THEN /\ stack' = rest
                     /\ UNCHANGED <<visited, visit_log, pc, ret>>
                ELSE /\ visited' = visited \cup {node}
                     /\ visit_log' = Append(visit_log, node)
                     /\ \E order \in CoreIters[node] : stack' = rest \o order
                     /\ UNCHANGED <<pc, ret>>
    /\ UNCHANGED <<rec_stack, cycle, keys_left, frames>>
    /\ UNCHANGED graph_vars

\* ----------------------------------------------------------------- Graph
\* NodeIDs the keyed graph can hand out, and one it never does.
GraphIDs == 0 .. (MaxKey + 1)

Range(s) == {s[i] : i \in 1 .. Len(s)}

EdgeCount ==
    LET RECURSIVE Sum(_)
        Sum(S) == IF S = {} THEN 0
                  ELSE LET n == CHOOSE x \in S : TRUE
                       IN  Len(nodes_dict[n]) + Sum(S \ {n})
    IN  Sum(DOMAIN nodes_dict)

\* Node::add_edge (Vec children): <<returned bool, children after>>.
Node_add_edge(children, id) ==
    <<id \in Range(children), Append(children, id)>>

\* add_node with the counter advanced before the duplicate check.
add_node_CountFirst(u) ==
    /\ pc = "idle"
    /\ id_counter + EdgeCount < MaxSize
    /\ id_counter' = id_counter + 1
    /\ IF u \in DOMAIN id_dict
       THEN /\ ret' = Call("add_node", <<u>>, Err("node {} is already added", u))
            /\ UNCHANGED <<id_dict, nodes_dict>>
       ELSE /\ id_dict' = HashMapInsert(id_dict, u, id_counter)[2]
            /\ nodes_dict' = HashMapInsert(nodes_dict, id_counter, << >>)[2]
            /\ ret' = Call("add_node", <<u>>, Ok("unit"))
    /\ pc' = "returned"
    /\ UNCHANGED core_nodes
    /\ UNCHANGED search_vars

\* add_node with `self.id_counter += 1` left out.
add_node_NoIncrement(u) ==
    /\ pc = "idle"
    /\ IF u \in DOMAIN id_dict
       THEN /\ ret' = Call("add_node", <<u>>, Err("node {} is already added", u))
            /\ UNCHANGED <<id_dict, nodes_dict>>
       ELSE /\ Cardinality(DOMAIN id_dict) + EdgeCount < MaxSize
            /\ id_dict' = HashMapInsert(id_dict, u, id_counter)[2]
            /\ nodes_dict' = HashMapInsert(nodes_dict, id_counter, << >>)[2]
            /\ ret' = Call("add_node", <<u>>, Ok("unit"))
    /\ pc' = "returned"
    /\ UNCHANGED <<core_nodes, id_counter>>
    /\ UNCHANGED search_vars

\* Graph::add_node
add_node(u) ==
    /\ pc = "idle"
    /\ IF u \in DOMAIN id_dict
       THEN /\ ret' = Call("add_node", <<u>>, Err("node {} is already added", u))
            /\ UNCHANGED <<id_counter, id_dict, nodes_dict>>
       ELSE LET new_id == id_counter
            IN  /\ id_counter + EdgeCount < MaxSize
                /\ id_counter' = id_counter + 1
                /\ id_dict' = HashMapInsert(id_dict, u, new_id)[2]
                /\ nodes_dict' = HashMapInsert(nodes_dict, new_id, << >>)[2]
                /\ ret' = Call("add_node", <<u>>, Ok("unit"))
    /\ pc' = "returned"
    /\ UNCHANGED core_nodes
    /\ UNCHANGED search_vars

\* The two lookups with u_to resolved first.
ResolveToFirst(u_from, u_to) ==
    IF u_to \notin DOMAIN id_dict
    THEN Err("node {} is not added", u_to)
    ELSE IF u_from \notin DOMAIN id_dict
    THEN Err("node {} is not added", u_from)
    ELSE Ok(<<id_dict[u_from], id_dict[u_to]>>)

\* The two lookups of Graph::add_edge, each `.get(..).ok_or(..)?`:
\* the first Err, or Ok of (from_id, to_id).
Resolve(u_from, u_to) ==
    IF u_from \notin DOMAIN id_dict
    THEN Err("node {} is not added", u_from)
    ELSE IF u_to \notin DOMAIN id_dict
    THEN Err("node {} is not added", u_to)
    ELSE Ok(<<id_dict[u_from], id_dict[u_to]>>)

\* Graph::add_edge
add_edge(u_from, u_to) ==
    /\ pc = "idle"
    /\ LET ids == Resolve(u_from, u_to)
       IN  IF ids.kind = "Err"
           THEN /\ ret' = Call("add_edge", <<u_from, u_to>>, ids)
                /\ pc' = "returned"
                /\ UNCHANGED nodes_dict
           ELSE LET from_id == ids.val[1]
                    to_id == ids.val[2]
                IN  IF from_id \notin DOMAIN nodes_dict
                    THEN \* get_mut(&from_id).unwrap() on None
                         /\ pc' = "panicked"
                         /\ ret' = Call("add_edge", <<u_from, u_to>>,
                                        [kind |-> "Panic"])
                         /\ UNCHANGED nodes_dict
                    ELSE LET r == Node_add_edge(nodes_dict[from_id], to_id)
                         IN  /\ id_counter + EdgeCount < MaxSize
                             /\ nodes_dict' =
                                    [nodes_dict EXCEPT ![from_id] = r[2]]
                             /\ ret' = Call("add_edge", <<u_from, u_to>>,
                                            Ok(r[1]))
                             /\ pc' = "returned"
    /\ UNCHANGED <<core_nodes, id_counter, id_dict>>
    /\ UNCHANGED search_vars

\* usize_graph's Graph::get_node: the value returned, or the panic.
GetNode(id) ==
    LET hits == {k \in DOMAIN id_dict : id_dict[k] = id}
    IN  IF hits = {} THEN None
        ELSE IF Cardinality(hits) = 1 THEN SomeOf(CHOOSE k \in hits : TRUE)
        ELSE [kind |-> "Panic"]

\* `self.nodes_dict.get(&node)` then `&n.children`, for a Vec.
Iters ==
    [n \in GraphIDs |->
        IF n \in DOMAIN nodes_dict THEN {nodes_dict[n]} ELSE {<< >>}]

detect_cycle == DetectBegin(DOMAIN nodes_dict)
detect_scan == DetectScan(Iters)
has_cycle_dfs == DfsLoop(Iters)

\* ------------------------------------------------------------ the caller
\* The caller drops the value a call returned (`let _ = g.add_node(2);`)
\* and is free to make the next call.
drop_result ==
    /\ pc = "returned"
    /\ pc' = "idle"
    /\ ret' = NoCall
    /\ UNCHANGED graph_vars
    /\ UNCHANGED search_vars

\* ------------------------------------------------------- specifications
\* The history of add_edge calls that returned Ok.
Record ==
    added' = IF ret'.op = "add_edge" /\ ret'.res.kind = "Ok"
             THEN added \cup {ret'.args}
             ELSE added

Next ==
    \/ (\E k \in Keys : add_node(k)) /\ Record
    \/ (\E a, b \in Keys : add_edge(a, b)) /\ Record
    \/ detect_cycle /\ UNCHANGED added
    \/ detect_scan /\ UNCHANGED added
    \/ has_cycle_dfs /\ UNCHANGED added
    \/ drop_result /\ UNCHANGED added

\* Graph under add_node, add_edge and detect_cycle.
Spec == Init /\ [][Next]_vars

OpsNext ==
    \/ (\E k \in Keys : add_node(k)) /\ Record
    \/ (\E a, b \in Keys : add_edge(a, b)) /\ Record
    \/ drop_result /\ UNCHANGED added

\* Graph under add_node and add_edge.
SpecOps == Init /\ [][OpsNext]_vars

CoreCalls ==
    \/ \E id \in NodeIDs : Core_add_node(id)
    \/ \E f, t \in NodeIDs : Core_add_edge(f, t)

CoreOpsNext ==
    \/ CoreCalls /\ Record
    \/ (\E f, t \in NodeIDs : Core_add_edge_panic(f, t)) /\ UNCHANGED added
    \/ drop_result /\ UNCHANGED added

\* GraphCore under add_node and add_edge, with the history of its calls.
SpecCoreOps == Init /\ [][CoreOpsNext]_vars

CoreNext ==
    \/ CoreCalls /\ UNCHANGED added
    \/ Core_detect_cycle /\ UNCHANGED added
    \/ Core_detect_scan /\ UNCHANGED added
    \/ Core_has_cycle_dfs /\ UNCHANGED added
    \/ (\E s \in NodeIDs : Core_traverse(s)) /\ UNCHANGED added
    \/ Core_traverse_loop /\ UNCHANGED added
    \/ drop_result /\ UNCHANGED added

\* GraphCore under add_node, add_edge, detect_cycle and traverse.
SpecCore == Init /\ [][CoreNext]_vars

\* ------------------------------------------------ graphs, as mathematics
\* The edges GraphCore stores.
CoreEdges ==
    {e \in NodeIDs \X NodeIDs :
        e[1] \in DOMAIN core_nodes /\ e[2] \in core_nodes[e[1]]}

\* The (from_key, to_key) history of Graph, in NodeIDs.
AddedIdEdges == {<<id_dict[e[1]], id_dict[e[2]]>> : e \in added}

\* The nodes some path of E leads to from S, S included.
ReachFrom(E, S) ==
    LET RECURSIVE Grow(_)
        Grow(T) == LET U == T \cup {e[2] : e \in {d \in E : d[1] \in T}}
                   IN  IF U = T THEN T ELSE Grow(U)
    IN  Grow(S)

\* The nodes a path of at least one edge of E leads to from n.
ReachPlus(E, n) == ReachFrom(E, {e[2] : e \in {d \in E : d[1] = n}})

HasDirectedCycle(E) == \E e \in E : e[1] \in ReachPlus(E, e[1])

Returned(op) == pc = "returned" /\ ret.op = op

\* -------------------------------------------------------------------- C1
\* C1: when GraphCore::detect_cycle has returned, whatever order the node
\* map and the children were iterated in, it returned None if and only if
\* the stored edges contain no directed cycle (a self-loop is a cycle), and
\* Some otherwise.
C1_NoneIffAcyclic ==
    Returned("detect_cycle") =>
        /\ ret.res.kind \in {"None", "Some"}
        /\ (ret.res.kind = "None") <=> ~HasDirectedCycle(CoreEdges)

\* detect_cycle returned Some from a root scanned after another part of the
\* graph, which that root does not reach, had been marked visited.
C1_Witness ==
    /\ Returned("detect_cycle")
    /\ ret.res.kind = "Some"
    /\ \E n \in ret.visited : n \notin ReachFrom(CoreEdges, {ret.rec_stack[1]})

\* -------------------------------------------------------------------- C2
Rotations3(a, b, c) == {<<a, b, c, a>>, <<b, c, a, b>>, <<c, a, b, c>>}

\* C2: when Graph::detect_cycle has returned Some(w), w has at least two
\* elements, starts and ends with the same node, every consecutive pair of
\* w is an edge a successful add_edge call added, and the elements before
\* the last are pairwise distinct; a lone self-loop gives [a, a] and a lone
\* triangle gives one of its three rotations.
C2_WitnessIsClosedCycle ==
    (Returned("detect_cycle") /\ ret.res.kind = "Some") =>
        LET w == ret.res.val
            n == Len(w)
        IN  /\ n >= 2
            /\ w[1] = w[n]
            /\ \A i \in 1 .. (n - 1) : <<w[i], w[i + 1]>> \in AddedIdEdges
            /\ \A i, j \in 1 .. (n - 1) : i # j => w[i] # w[j]
            /\ \A a \in GraphIDs :
                 AddedIdEdges = {<<a, a>>} => w = <<a, a>>
            /\ \A a, b, c \in GraphIDs :
                 (AddedIdEdges = {<<a, b>>, <<b, c>>, <<c, a>>}
                    /\ a # b /\ b # c /\ a # c)
                 => w \in Rotations3(a, b, c)

\* detect_cycle returned a triangle from a graph that holds only it.
C2_Witness ==
    /\ Returned("detect_cycle")
    /\ ret.res.kind = "Some"
    /\ Len(ret.res.val) = 4
    /\ Cardinality(AddedIdEdges) = 3

\* -------------------------------------------------------------------- C3
\* C3: when Graph::detect_cycle has returned Some(w), every element of w is
\* the key its node was registered under, so every consecutive pair of w
\* is a (from_key, to_key) that a successful add_edge call was given.
C3_WitnessInKeySpace ==
    (Returned("detect_cycle") /\ ret.res.kind = "Some") =>
        LET w == ret.res.val
        IN  /\ \A i \in 1 .. Len(w) : w[i] \in DOMAIN id_dict
            /\ \A i \in 1 .. (Len(w) - 1) : <<w[i], w[i + 1]>> \in added

\* -------------------------------------------------------------------- C4
\* Graph::add_edge(a, b) with both keys registered returns Ok(true) exactly
\* when an earlier add_edge(a, b) returned Ok, and b's NodeID is then among
\* a's children.
C4_GraphStep ==
    (pc = "idle" /\ ret'.op = "add_edge") =>
        LET a == ret'.args[1]
            b == ret'.args[2]
        IN  (a \in DOMAIN id_dict /\ b \in DOMAIN id_dict /\ add_edge(a, b))
            =>  /\ ret'.res = Ok(<<a, b>> \in added)
                /\ id_dict[b] \in Range(nodes_dict'[id_dict[a]])

\* GraphCore::add_edge(f, t) with f registered does the same.
C4_CoreStep ==
    (pc = "idle" /\ ret'.op = "add_edge") =>
        LET f == ret'.args[1]
            t == ret'.args[2]
        IN  Core_add_edge(f, t)
            =>  /\ ret'.res = Ok(<<f, t>> \in added)
                /\ t \in core_nodes'[f]

\* C4: in Graph and in GraphCore, whatever calls came in between, add_edge
\* on registered nodes returns Ok(false) exactly when no earlier call with
\* the same (from, to) succeeded and Ok(true) otherwise, and the edge is
\* stored after either; (to, from) is another edge.
C4_DuplicateIndicator == [][C4_GraphStep /\ C4_CoreStep]_vars

\* -------------------------------------------------------------------- C5
\* The key add_edge(a, b) must name: a when a is unregistered, else b.
Offending(a, b) == IF a \notin DOMAIN id_dict THEN a ELSE b

\* A step that is a call of Graph::add_edge with an unregistered key.
C5_Step ==
    (pc = "idle" /\ ret'.op = "add_edge") =>
        LET a == ret'.args[1]
            b == ret'.args[2]
        IN  ((a \notin DOMAIN id_dict \/ b \notin DOMAIN id_dict)
                /\ add_edge(a, b))
            =>  /\ ret'.res = Err("node {} is not added", Offending(a, b))
                /\ UNCHANGED <<id_counter, id_dict, nodes_dict>>

\* C5: Graph::add_edge with an unregistered key returns an error naming
\* from_key if from_key is unregistered and to_key otherwise, and leaves
\* id_counter, id_dict and nodes_dict as they were.
C5_UnknownKeyRejected == [][C5_Step]_vars

\* add_edge failed on its to_key alone, in a graph that holds edges.
C5_Witness ==
    /\ Returned("add_edge")
    /\ ret.res.kind = "Err"
    /\ ret.args[1] \in DOMAIN id_dict
    /\ ret.res.msg[2] = ret.args[2]
    /\ ret.args[1] # ret.args[2]
    /\ EdgeCount > 0

\* -------------------------------------------------------------------- C6
\* A step that is a call of Graph::add_node with a registered key.
C6_Step ==
    (pc = "idle" /\ ret'.op = "add_node") =>
        LET k == ret'.args[1]
        IN  (k \in DOMAIN id_dict /\ add_node(k))
            =>  /\ ret'.res = Err("node {} is already added", k)
                /\ UNCHANGED <<id_counter, id_dict, nodes_dict>>

\* C6: Graph::add_node with a registered key returns an error, whatever
\* calls came in between, and leaves id_counter, id_dict (so the key's
\* NodeID) and nodes_dict (so the node's edges) as they were.
C6_DuplicateKeyRejected == [][C6_Step]_vars

\* add_node failed for a key whose node has outgoing edges, after a later
\* key was registered.
C6_Witness ==
    /\ Returned("add_node")
    /\ ret.res.kind = "Err"
    /\ nodes_dict[id_dict[ret.args[1]]] # << >>
    /\ id_dict[ret.args[1]] + 1 < id_counter

\* -------------------------------------------------------------------- C7
\* A step that is a call of GraphCore::add_node with a registered id.
C7_Step ==
    (pc = "idle" /\ ret'.op = "add_node") =>
        LET id == ret'.args[1]
        IN  (id \in DOMAIN core_nodes /\ Core_add_node(id))
            =>  /\ ret'.res = Err("duplication: node {} is already added", id)
                /\ core_nodes' = core_nodes

\* C7: GraphCore::add_node with a registered identifier returns an error
\* naming it and leaves every node's children as they were.
C7_DuplicateIdRejected == [][C7_Step]_vars

\* -------------------------------------------------------------------- C8
C8_Bijection ==
    /\ \A j, k \in DOMAIN id_dict : id_dict[j] = id_dict[k] => j = k
    /\ {id_dict[k] : k \in DOMAIN id_dict} = 0 .. (id_counter - 1)
    /\ DOMAIN nodes_dict = 0 .. (id_counter - 1)
    /\ \A id \in GraphIDs :
        /\ GetNode(id).kind # "Panic"
        /\ id < id_counter =>
            /\ GetNode(id).kind = "Some"
            /\ id_dict[GetNode(id).val] = id
        /\ id >= id_counter => GetNode(id) = None
    /\ pc # "panicked"

\* A step that is a call of Graph::add_node with a new key.
C8_Step ==
    (pc = "idle" /\ ret'.op = "add_node") =>
        LET k == ret'.args[1]
        IN  (k \notin DOMAIN id_dict /\ add_node(k))
            =>  /\ ret'.res = Ok("unit")
                /\ id_dict'[k] = id_counter

\* C8: after any add_node and add_edge calls on Graph, distinct keys have
\* distinct NodeIDs, the NodeIDs of id_dict, the keys of nodes_dict and
\* 0 .. id_counter - 1 are the same set, get_node finds exactly the one key
\* of every NodeID handed out and never panics, and add_node with a new
\* key returns Ok and gives it the NodeID id_counter.
C8_DenseBijection == []C8_Bijection /\ [][C8_Step]_vars

\* Every key is registered, one of them under a NodeID other than itself,
\* and the last call was one that failed.
C8_Witness ==
    /\ DOMAIN id_dict = Keys
    /\ \E k \in Keys : id_dict[k] # k
    /\ pc = "returned"
    /\ ret.res.kind = "Err"

\* -------------------------------------------------------------------- C9
Count(s, x) == Cardinality({i \in 1 .. Len(s) : s[i] = x})

\* traverse from a registered start called visit once for every node the
\* stored edges reach from start, and for no other.
C9_Result ==
    (Returned("traverse") /\ ret.args[1] \in DOMAIN core_nodes) =>
        \A n \in NodeIDs :
            Count(ret.visits, n) =
                IF n \in ReachFrom(CoreEdges, {ret.args[1]}) THEN 1 ELSE 0

\* What an iteration of traverse's loop has left to do.
C9_Work ==
    Cardinality(NodeIDs \ visited) * (Cardinality(NodeIDs) + 1) + Len(stack)

\* Every iteration of the loop that does not end it leaves less to do.
C9_Progress ==
    (pc = "traverse" /\ pc' = "traverse") => C9_Work' < C9_Work

\* C9: GraphCore::traverse from a registered start ends (every iteration
\* of its loop lowers a bounded measure), and when it has, visit was called
\* exactly once for each node reachable from start, start included, and
\* never for another, whatever order the children were pushed in.
C9_TraverseVisitsReachableOnce == []C9_Result /\ [][C9_Progress]_vars

\* traverse ended on a graph with a cycle and a node it must not visit.
C9_Witness ==
    /\ Returned("traverse")
    /\ ret.args[1] \in DOMAIN core_nodes
    /\ Len(ret.visits) >= 2
    /\ ret.args[1] \in ReachPlus(CoreEdges, ret.args[1])
    /\ DOMAIN core_nodes \ ReachFrom(CoreEdges, {ret.args[1]}) # {}

\* ------------------------------------------------------------------- C10
\* C10: GraphCore::traverse from a start that was never registered calls
\* visit zero times and does not panic.
C10_UnregisteredStartVisitsNothing ==
    (Returned("traverse") /\ ret.args[1] \notin DOMAIN core_nodes) =>
        /\ ret.res = Ok("unit")
        /\ ret.visits = << >>

\* ------------------------------------------------------------------- C11
\* The edges detect_cycle follows: those of GraphCore, or those of Graph.
SearchEdges ==
    CoreEdges \cup
    {e \in GraphIDs \X GraphIDs :
        e[1] \in DOMAIN nodes_dict /\ e[2] \in Range(nodes_dict[e[1]])}

\* detect_cycle is between two steps of its search.
Searching == pc = "detect_cycle"

\* At every point of the search: rec_stack holds no node twice, each
\* node of it is followed by one of its children, all of it is in visited,
\* it is the nodes of the running activations of has_cycle_dfs, and it is
\* empty whenever detect_cycle's own loop is about to take a key.
C11_Stack ==
    Searching =>
        /\ \A i, j \in 1 .. Len(rec_stack) :
               rec_stack[i] = rec_stack[j] => i = j
        /\ \A i \in 1 .. Len(rec_stack) - 1 :
               <<rec_stack[i], rec_stack[i + 1]>> \in SearchEdges
        /\ Range(rec_stack) \subseteq visited
        /\ Len(frames) = Len(rec_stack)
        /\ \A i \in 1 .. Len(frames) : frames[i].node = rec_stack[i]
        /\ frames = << >> => rec_stack = << >>

\* A step of the search never unmarks a node, and marks a node exactly
\* when it pushes it: the node was not marked before, and goes on top.
C11_Once ==
    (Searching /\ Searching') =>
        /\ visited \subseteq visited'
        /\ \A n \in visited' \ visited :
               /\ visited' = visited \cup {n}
               /\ rec_stack' = Append(rec_stack, n)
        /\ Len(rec_stack') > Len(rec_stack) =>
               /\ Len(rec_stack') = Len(rec_stack) + 1
               /\ SubSeq(rec_stack', 1, Len(rec_stack)) = rec_stack
               /\ rec_stack'[Len(rec_stack')] \notin visited
               /\ rec_stack'[Len(rec_stack')] \in visited'

\* The children the running activations have still to look at.
PendingChildren(fs) ==
    LET RECURSIVE Sum(_)
        Sum(t) == IF t = << >> THEN 0 ELSE Len(Head(t).iter) + Sum(Tail(t))
    IN  Sum(fs)

\* What the search has left to do: nodes to mark (each brings one
\* activation and its children), keys to take, children to look at,
\* activations to end.
C11_Work ==
    Cardinality((NodeIDs \cup GraphIDs) \ visited)
        * (Cardinality(NodeIDs \cup GraphIDs) + 2)
    + Cardinality(keys_left) + PendingChildren(frames) + Len(frames)

\* Every step of the search that does not end it leaves less to do.
C11_Progress ==
    (Searching /\ Searching') => C11_Work' < C11_Work

\* C11: during a detect_cycle call, between any two steps of the search,
\* a node is marked visited and pushed on rec_stack at most once (each
\* step lowers a bounded measure, so the call ends on cyclic and acyclic
\* graphs alike), rec_stack never holds a node twice, consecutive nodes of
\* rec_stack are joined by an edge, rec_stack is inside visited, and
\* rec_stack is empty whenever the top-level loop starts from a new root.
C11_SearchInvariants ==
    []C11_Stack /\ [][C11_Once /\ C11_Progress]_vars

\* Two activations are running, a node was marked and popped before, and
\* the next child of the innermost activation is that marked node.
C11_Witness ==
    /\ Searching
    /\ Len(rec_stack) >= 2
    /\ visited \ Range(rec_stack) # {}
    /\ frames[Len(frames)].iter # << >>
    /\ Head(frames[Len(frames)].iter) \in visited \ Range(rec_stack)
====
